---- MODULE Spec2Model ----
(***************************************************************************)
(* Model of the relay event bus: the binding registry (relay/bindings.py), *)
(* the dispatcher Relay.emit and the @emits / @listens wrappers            *)
(* (relay/relay.py), running on the asyncio cooperative scheduler.         *)
(*                                                                         *)
(* Strings are tuples of one-character strings, so that the wildcard       *)
(* matcher works on them as the code does.  An Optional value is a tuple   *)
(* of length 0 (None) or 1 (the value).                                    *)
(***************************************************************************)
EXTENDS Integers, Sequences, FiniteSets, TLC

\* ------------------------------------------------------------------ bounds
\* most bindings registered at the same time
MaxBindings == 2
\* most calls of the queries, of Relay.emit and of emitter methods in one run
MaxCalls == 1
\* longest candidate and longest pattern handed to the matcher on its own
MaxLen == 3
\* how many times in a row a caller calls one emitter
MaxSequence == 2

\* ------------------------------------------------------------- the universe
None == <<>>
Some(v) == <<v>>

R1 == "r1"
R2 == "r2"
Relays == {R1, R2}

\* a class, as the __self__ of a classmethod
DummyRelay == "DummyRelay"

\* a bound method object (types.MethodType): compared by
\* (__self__, __func__); self is an instance, or the class of a classmethod
BoundMethod(self, name) ==
    [type |-> "method", self |-> Some(self), name |-> name]
\* a plain function (types.FunctionType)
FreeFunction(name) == [type |-> "function", self |-> None, name |-> name]
\* a builtin such as print
BuiltinFunction(name) ==
    [type |-> "builtin_function_or_method", self |-> None, name |-> name]
\* an instance of a class that defines __call__
CallableObject(name) == [type |-> "object", self |-> None, name |-> name]

\* inspect.ismethod, inspect.isfunction
ismethod(method) == method.type = "method"
isfunction(method) == method.type = "function"

ChA == <<"a">>
ChB == <<"b">>
EtX == <<"x">>
EtY == <<"y">>

\* relay/event.py: the fields SourceInfo declares
SourceInfoFields == {"relay", "func"}

\* SourceInfo(**kwargs): pydantic keeps the declared fields, defaults the
\* missing ones to None and ignores every other keyword
SourceInfo(kwargs) ==
    [f \in SourceInfoFields |->
        IF f \in DOMAIN kwargs THEN kwargs[f] ELSE None]

\* Listener / Emitter / Binding objects
MkBinding(kind, method, channel, event_type, source) ==
    [kind |-> kind, method |-> method, channel |-> channel,
     event_type |-> event_type, source |-> source]

\* The binding objects of the runs.  The index of an object is its identity;
\* objects 1 and 5 are distinct objects with equal content.  Objects 8 and 9
\* have longer channels and event types, for the lookups by pattern; objects
\* 10 to 12 have methods that are no bound methods and object 13 has a
\* classmethod.  Objects 14 and 15 bind one method as a listener of one
\* channel and as an emitter of another.  Entries 16 and 17 are the
\* arguments of constructor calls that the validator of Binding rejects.
\* Object 18 has a listener whose event parameter is a plain Event.
Objs ==
    << MkBinding("Listener", BoundMethod(R1, "lis"), ChA, EtX, None),
       MkBinding("Listener", BoundMethod(R1, "bad"), ChA, EtX, None),
       MkBinding("Listener", BoundMethod(R2, "lis"), ChA, EtX,
                 Some(SourceInfo([relay |-> Some(R1),
                                  emitter |-> Some(BoundMethod(R1, "emt"))]))),
       MkBinding("Emitter", BoundMethod(R1, "emt"), ChA, EtX, None),
       MkBinding("Listener", BoundMethod(R1, "lis"), ChA, EtX, None),
       MkBinding("Listener", BoundMethod(R2, "lis"), ChA, EtY, None),
       MkBinding("Listener", BoundMethod(R2, "lis"), ChB, EtX, None),
       MkBinding("Listener", BoundMethod(R1, "lis"), <<"a", "b">>, EtX,
                 None),
       MkBinding("Listener", BoundMethod(R2, "lis"), <<"b", "a">>,
                 <<"x", "y">>, None),
       MkBinding("Binding", FreeFunction("dummy_function"), ChA, EtX, None),
       MkBinding("Binding", BuiltinFunction("print"), ChA, EtX, None),
       MkBinding("Binding", CallableObject("callable_obj"), ChA, EtX, None),
       MkBinding("Binding", BoundMethod(DummyRelay, "class_listener_method"),
                 ChA, EtX, None),
       MkBinding("Listener", BoundMethod(R1, "mid"), ChA, EtX, None),
       MkBinding("Emitter", BoundMethod(R1, "mid"), ChB, EtX, None),
       MkBinding("Listener", BoundMethod(R1, "lis"), <<"a", ":">>, EtX,
                 None),
       MkBinding("Emitter", BoundMethod(R1, "emt"), ChA, <<"x", "*">>,
                 None),
       MkBinding("Listener", BoundMethod(R2, "any"), ChA, EtX, None),
       MkBinding("Emitter", BoundMethod(R1, "mid"), ChA, EtX, None) >>

AllIds == DOMAIN Objs

\* the binding objects the caller of Spec works with
Ids == 1..7

\* pydantic BaseModel.__eq__: same class and equal field values
BEq(i, j) == Objs[i] = Objs[j]

\* `binding in lst`
Contains(lst, i) == \E k \in DOMAIN lst : BEq(lst[k], i)

\* lst.remove(binding): drops the first element equal to binding
ListRemove(lst, i) ==
    LET k == CHOOSE k \in DOMAIN lst :
                 /\ BEq(lst[k], i)
                 /\ \A m \in 1..(k-1) : ~BEq(lst[m], i)
    IN  [m \in 1..(Len(lst)-1) |-> IF m < k THEN lst[m] ELSE lst[m+1]]

\* relay/consts.py FORBIDDEN_CHARACTERS: the colon and the wildcard
FORBIDDEN_CHARACTERS == {":", "*"}

\* validate_forbidden_characters(v, forbidden_chars): the forbidden
\* characters found in v; with none v is returned, otherwise ValueError is
\* raised and names one of them
forbidden_found(v, forbidden_chars) ==
    {v[n] : n \in DOMAIN v} \cap forbidden_chars

\* the message of that ValueError for the character c
ForbiddenMsg(c) == "Forbidden character '" \o c \o "'"

\* Binding.check_forbidden_characters, the validator of channel and
\* event_type
check_forbidden_characters(v) == forbidden_found(v, FORBIDDEN_CHARACTERS)

\* the characters that make the constructor of the binding b fail
rejected(b) ==
    check_forbidden_characters(b.event_type)
        \cup check_forbidden_characters(b.channel)

\* ------------------------------------------------- insertion-ordered dicts
\* a dict is a sequence of [k, v] entries in insertion order
DKeys(d) == {d[n].k : n \in DOMAIN d}
DHas(d, key) == key \in DKeys(d)
DGet(d, key) == d[CHOOSE n \in DOMAIN d : d[n].k = key].v
DSet(d, key, val) ==
    IF DHas(d, key)
    THEN [n \in DOMAIN d |-> IF d[n].k = key THEN [k |-> key, v |-> val]
                                              ELSE d[n]]
    ELSE Append(d, [k |-> key, v |-> val])
DDel(d, key) == SelectSeq(d, LAMBDA p : p.k # key)
\* defaultdict.__getitem__: a missing key is inserted with the default
DTouch(d, key, default) == IF DHas(d, key) THEN d ELSE DSet(d, key, default)
\* dict.get(key, default)
DGetOr(d, key, default) == IF DHas(d, key) THEN DGet(d, key) ELSE default

\* the same for a dict whose key order is never read (a TLA+ function)
FTouch(f, key, default) ==
    IF key \in DOMAIN f THEN f
    ELSE [x \in DOMAIN f \cup {key} |-> IF x = key THEN default ELSE f[x]]
FSet(f, key, val) ==
    [x \in DOMAIN f \cup {key} |-> IF x = key THEN val ELSE f[x]]
FDel(f, key) == [x \in DOMAIN f \ {key} |-> f[x]]
FGetOr(f, key, default) == IF key \in DOMAIN f THEN f[key] ELSE default

EmptyFn == [x \in {} |-> <<>>]

\* ---------------------------------------------------------------- strings
STAR == "*"
HasStar(s) == \E n \in DOMAIN s : s[n] = STAR

\* s[a:b] with 0-based offsets
Slice(s, a, b) == [n \in 1..(b - a) |-> s[a + n]]

\* pattern.split('*')
RECURSIVE SplitFrom(_, _, _)
SplitFrom(p, n, cur) ==
    IF n > Len(p) THEN <<cur>>
    ELSE IF p[n] = STAR THEN <<cur>> \o SplitFrom(p, n + 1, <<>>)
    ELSE SplitFrom(p, n + 1, Append(cur, p[n]))
Split(p) == SplitFrom(p, 1, <<>>)

StartsWith(s, seg) ==
    Len(seg) <= Len(s) /\ Slice(s, 0, Len(seg)) = seg
EndsWith(s, seg) ==
    Len(seg) <= Len(s) /\ Slice(s, Len(s) - Len(seg), Len(s)) = seg

\* s.find(seg, start): least offset >= start where seg occurs, else -1
Find(s, seg, start) ==
    LET hits == {o \in start..(Len(s) - Len(seg)) :
                     Slice(s, o, o + Len(seg)) = seg}
    IN  IF hits = {} THEN -1
        ELSE CHOOSE o \in hits : \A o2 \in hits : o <= o2

RECURSIVE FindAll(_, _, _, _)
FindAll(s, segments, n, start_idx) ==
    IF n > Len(segments) THEN TRUE
    ELSE LET idx == Find(s, segments[n], start_idx)
         IN  IF idx = -1 THEN FALSE
             ELSE FindAll(s, segments, n + 1, idx + Len(segments[n]))

\* the matcher as it would be without the check of the last segment
matches_pattern_NoSuffixCheck(s, pattern) ==
    LET segments == Split(pattern)
    IN  IF segments[1] # <<>> /\ ~StartsWith(s, segments[1]) THEN FALSE
        ELSE FindAll(s, segments, 1, 0)

\* the matcher as it would be if it checked the first and the last segment
\* only
matches_pattern_EdgesOnly(s, pattern) ==
    LET segments == Split(pattern)
    IN  IF segments[1] # <<>> /\ ~StartsWith(s, segments[1]) THEN FALSE
        ELSE IF segments[Len(segments)] # <<>>
                /\ ~EndsWith(s, segments[Len(segments)]) THEN FALSE
        ELSE TRUE

\* get_by_event._matches_pattern
matches_pattern(s, pattern) ==
    LET segments == Split(pattern)
    IN  IF segments[1] # <<>> /\ ~StartsWith(s, segments[1]) THEN FALSE
        ELSE IF segments[Len(segments)] # <<>>
                /\ ~EndsWith(s, segments[Len(segments)]) THEN FALSE
        ELSE FindAll(s, segments, 1, 0)

\* ------------------------------------------------------------- the registry
\* The three class-level indices, as one value:
\*   ct  : _by_chnl_and_type, dict channel -> dict event_type -> list
\*   rel : _by_relay,         dict owner -> list
\*   met : _by_method,        dict bound method -> list
\* Lists hold object identities (indices of Objs).
EmptyReg == [ct |-> <<>>, rel |-> EmptyFn, met |-> EmptyFn]

\* the message of the ValueError of _get_binding_data
err_msg == "Binding method must come from Relay."

\* the body of _get_binding_data, for the binding object b
binding_data(b) ==
    LET ok == IF ismethod(b.method) THEN b.method.self # None
              ELSE IF isfunction(b.method) THEN FALSE
              ELSE FALSE
    IN  IF ok
        THEN [ok |-> TRUE, channel |-> b.channel, event_type |-> b.event_type,
              method |-> b.method, instance |-> b.method.self[1]]
        ELSE [ok |-> FALSE, channel |-> b.channel,
              event_type |-> b.event_type,
              method |-> b.method, instance |-> ""]

\* _get_binding_data as it would be if it took every callable, with no owner
\* for those that have none
get_binding_data_AnyCallable(i) ==
    LET b == Objs[i]
    IN  [ok |-> TRUE, channel |-> b.channel, event_type |-> b.event_type,
         method |-> b.method,
         instance |-> IF b.method.self # None THEN b.method.self[1] ELSE ""]

\* Bindings._get_binding_data: ok is FALSE where the code raises ValueError
get_binding_data(i) == binding_data(Objs[i])

\* clear as it would be if it left the method index alone
clear_KeepsMethodIndex(reg) == [EmptyReg EXCEPT !.met = reg.met]

\* Bindings.clear
clear(reg) == EmptyReg

\* add as it would be if it did not file the binding by method
add_SkipsMethodIndex(reg, i) ==
    LET d      == get_binding_data(i)
        ct1    == DTouch(reg.ct, d.channel, <<>>)
        inner1 == DTouch(DGet(ct1, d.channel), d.event_type, <<>>)
        lst    == DGet(inner1, d.event_type)
        inner2 == IF Contains(lst, i) THEN inner1
                  ELSE DSet(inner1, d.event_type, Append(lst, i))
        rel1   == FTouch(reg.rel, d.instance, <<>>)
        rel2   == IF Contains(rel1[d.instance], i) THEN rel1
                  ELSE FSet(rel1, d.instance, Append(rel1[d.instance], i))
    IN  [ct |-> DSet(ct1, d.channel, inner2), rel |-> rel2, met |-> reg.met]

\* add as it would be if it put a new binding at the front of each list
add_Prepends(reg, i) ==
    LET d      == get_binding_data(i)
        ct1    == DTouch(reg.ct, d.channel, <<>>)
        inner1 == DTouch(DGet(ct1, d.channel), d.event_type, <<>>)
        lst    == DGet(inner1, d.event_type)
        inner2 == IF Contains(lst, i) THEN inner1
                  ELSE DSet(inner1, d.event_type, <<i>> \o lst)
        rel1   == FTouch(reg.rel, d.instance, <<>>)
        rel2   == IF Contains(rel1[d.instance], i) THEN rel1
                  ELSE FSet(rel1, d.instance, <<i>> \o rel1[d.instance])
        met1   == FTouch(reg.met, d.method, <<>>)
        met2   == IF Contains(met1[d.method], i) THEN met1
                  ELSE FSet(met1, d.method, <<i>> \o met1[d.method])
    IN  [ct |-> DSet(ct1, d.channel, inner2), rel |-> rel2, met |-> met2]

\* add as it would be without the checks for a binding that is there
add_AppendsAlways(reg, i) ==
    LET d      == get_binding_data(i)
        ct1    == DTouch(reg.ct, d.channel, <<>>)
        inner1 == DTouch(DGet(ct1, d.channel), d.event_type, <<>>)
        inner2 == DSet(inner1, d.event_type,
                       Append(DGet(inner1, d.event_type), i))
        rel1   == FTouch(reg.rel, d.instance, <<>>)
        met1   == FTouch(reg.met, d.method, <<>>)
    IN  [ct  |-> DSet(ct1, d.channel, inner2),
         rel |-> FSet(rel1, d.instance, Append(rel1[d.instance], i)),
         met |-> FSet(met1, d.method, Append(met1[d.method], i))]

\* Bindings.add, after _get_binding_data succeeded
add(reg, i) ==
    LET d      == get_binding_data(i)
        ct1    == DTouch(reg.ct, d.channel, <<>>)
        inner1 == DTouch(DGet(ct1, d.channel), d.event_type, <<>>)
        lst    == DGet(inner1, d.event_type)
        inner2 == IF Contains(lst, i) THEN inner1
                  ELSE DSet(inner1, d.event_type, Append(lst, i))
        rel1   == FTouch(reg.rel, d.instance, <<>>)
        rel2   == IF Contains(rel1[d.instance], i) THEN rel1
                  ELSE FSet(rel1, d.instance, Append(rel1[d.instance], i))
        met1   == FTouch(reg.met, d.method, <<>>)
        met2   == IF Contains(met1[d.method], i) THEN met1
                  ELSE FSet(met1, d.method, Append(met1[d.method], i))
    IN  [ct |-> DSet(ct1, d.channel, inner2), rel |-> rel2, met |-> met2]

\* remove as it would be if it left the keys it has emptied in place
remove_KeepsEmptyKeys(reg, i) ==
    LET d      == get_binding_data(i)
        ct1    == DTouch(reg.ct, d.channel, <<>>)
        inner1 == DGet(ct1, d.channel)
        lst    == DGetOr(inner1, d.event_type, <<>>)
        inner2 == IF Contains(lst, i)
                  THEN DSet(inner1, d.event_type, ListRemove(lst, i))
                  ELSE inner1
        rlst   == FGetOr(reg.rel, d.instance, <<>>)
        rel1   == IF Contains(rlst, i)
                  THEN FSet(reg.rel, d.instance, ListRemove(rlst, i))
                  ELSE reg.rel
        mlst   == FGetOr(reg.met, d.method, <<>>)
        met1   == IF Contains(mlst, i)
                  THEN FSet(reg.met, d.method, ListRemove(mlst, i))
                  ELSE reg.met
    IN  [ct |-> DSet(ct1, d.channel, inner2), rel |-> rel1, met |-> met1]

\* Bindings.remove, for a binding that is not None and whose
\* _get_binding_data succeeded
remove(reg, i) ==
    LET d      == get_binding_data(i)
        \* _by_chnl_and_type[channel] inserts a missing channel
        ct1    == DTouch(reg.ct, d.channel, <<>>)
        inner1 == DGet(ct1, d.channel)
        lst    == DGetOr(inner1, d.event_type, <<>>)
        inner2 == IF Contains(lst, i)
                  THEN DSet(inner1, d.event_type, ListRemove(lst, i))
                  ELSE inner1
        \* removing empty event type
        inner3 == IF DGetOr(inner2, d.event_type, <<>>) = <<>>
                  THEN DDel(inner2, d.event_type) ELSE inner2
        \* removing empty channel
        ct2    == IF inner3 = <<>> THEN DDel(ct1, d.channel)
                  ELSE DSet(ct1, d.channel, inner3)
        rlst   == FGetOr(reg.rel, d.instance, <<>>)
        rel1   == IF Contains(rlst, i)
                  THEN FSet(reg.rel, d.instance, ListRemove(rlst, i))
                  ELSE reg.rel
        rel2   == IF FGetOr(rel1, d.instance, <<>>) = <<>>
                  THEN FDel(rel1, d.instance) ELSE rel1
        mlst   == FGetOr(reg.met, d.method, <<>>)
        met1   == IF Contains(mlst, i)
                  THEN FSet(reg.met, d.method, ListRemove(mlst, i))
                  ELSE reg.met
        met2   == IF FGetOr(met1, d.method, <<>>) = <<>>
                  THEN FDel(met1, d.method) ELSE met1
    IN  [ct |-> ct2, rel |-> rel2, met |-> met2]

\* Bindings.remove for an Optional binding: None returns at once
remove_optional(reg, binding) ==
    IF binding = None THEN reg ELSE remove(reg, binding[1])

\* the for loop of remove_relay: the list iterator keeps an offset into the
\* list object that remove() shrinks while the loop runs
RECURSIVE remove_relay_loop(_, _, _)
remove_relay_loop(reg, relay, idx) ==
    LET bindings_to_remove == FGetOr(reg.rel, relay, <<>>)
    IN  IF idx > Len(bindings_to_remove) THEN reg
        ELSE remove_relay_loop(remove(reg, bindings_to_remove[idx]),
                               relay, idx + 1)

\* Bindings.remove_relay; relay is an Optional owner
remove_relay(reg, relay) ==
    IF relay = None THEN reg
    ELSE IF relay[1] \in DOMAIN reg.rel
         THEN remove_relay_loop(reg, relay[1], 1)
         ELSE reg

\* the filter as it would be if it let every binding through
kind_check_AnyKind(i, filter_) == TRUE

\* type_check(b, filter_) for a filter that is one of the binding classes
kind_check(i, filter_) == filter_ = "Binding" \/ Objs[i].kind = filter_

Filter(lst, filter_) == SelectSeq(lst, LAMBDA i : kind_check(i, filter_))

\* get_by_event._retrieve_by_event; returns the list and the index as the
\* defaultdict lookups leave it
RECURSIVE retrieve_by_event(_, _, _)
RECURSIVE retrieve_channels(_, _, _, _)
RECURSIVE retrieve_event_types(_, _, _, _)

RECURSIVE ConcatLists(_)
ConcatLists(inner) ==
    IF inner = <<>> THEN <<>>
    ELSE Head(inner).v \o ConcatLists(Tail(inner))

\* _retrieve_by_event as it would be if the exact lookup looked at the
\* channel only
retrieve_by_event_AnyType(ct, channel, event_type) ==
    IF ~HasStar(channel) /\ ~HasStar(event_type)
    THEN LET ct1   == DTouch(ct, channel, <<>>)
             inner == DTouch(DGet(ct1, channel), event_type, <<>>)
         IN  [res |-> ConcatLists(inner),
              ct  |-> DSet(ct1, channel, inner)]
    ELSE IF HasStar(channel)
    THEN retrieve_channels(ct, channel, event_type, 1)
    ELSE retrieve_event_types(DTouch(ct, channel, <<>>),
                              channel, event_type, 1)

retrieve_by_event(ct, channel, event_type) ==
    IF ~HasStar(channel) /\ ~HasStar(event_type)
    THEN LET ct1   == DTouch(ct, channel, <<>>)
             inner == DTouch(DGet(ct1, channel), event_type, <<>>)
         IN  [res |-> DGet(inner, event_type),
              ct  |-> DSet(ct1, channel, inner)]
    ELSE IF HasStar(channel)
    THEN retrieve_channels(ct, channel, event_type, 1)
    ELSE retrieve_event_types(DTouch(ct, channel, <<>>),
                              channel, event_type, 1)

\* for ch in _by_chnl_and_type.keys(), from the n-th key on
retrieve_channels(ct, channel, event_type, n) ==
    IF n > Len(ct) THEN [res |-> <<>>, ct |-> ct]
    ELSE IF matches_pattern(ct[n].k, channel)
    THEN LET one  == retrieve_by_event(ct, ct[n].k, event_type)
             rest == retrieve_channels(one.ct, channel, event_type, n + 1)
         IN  [res |-> one.res \o rest.res, ct |-> rest.ct]
    ELSE retrieve_channels(ct, channel, event_type, n + 1)

\* for et in _by_chnl_and_type[channel].keys(), from the n-th key on
retrieve_event_types(ct, channel, event_type, n) ==
    LET inner == DGet(ct, channel)
    IN  IF n > Len(inner) THEN [res |-> <<>>, ct |-> ct]
        ELSE IF matches_pattern(inner[n].k, event_type)
        THEN LET one  == retrieve_by_event(ct, channel, inner[n].k)
                 rest == retrieve_event_types(one.ct, channel,
                                              event_type, n + 1)
             IN  [res |-> one.res \o rest.res, ct |-> rest.ct]
        ELSE retrieve_event_types(ct, channel, event_type, n + 1)

\* Bindings.get_by_event
get_by_event(reg, channel, event_type, filter_) ==
    LET r == retrieve_by_event(reg.ct, channel, event_type)
    IN  [res |-> Filter(r.res, filter_),
         reg |-> [reg EXCEPT !.ct = r.ct]]

\* Bindings.get_by_relay
get_by_relay(reg, relay, filter_) ==
    LET rel1 == FTouch(reg.rel, relay, <<>>)
    IN  [res |-> Filter(rel1[relay], filter_),
         reg |-> [reg EXCEPT !.rel = rel1]]

\* Bindings.get_by_method
get_by_method(reg, method, filter_) ==
    LET met1 == FTouch(reg.met, method, <<>>)
    IN  [res |-> Filter(met1[method], filter_),
         reg |-> [reg EXCEPT !.met = met1]]

\* --------------------------------------------------------------- dispatch
\* Event(data=..., channel=..., event_type=..., source=...)
Event(data, channel, event_type, source) ==
    [data |-> data, channel |-> channel, event_type |-> event_type,
     source |-> source]

\* Relay.emit.source_compatible.  The result is "True", "False", or
\* "AttributeError" where reading an attribute that the SourceInfo object
\* does not have raises.
source_compatible(s_event, s_listener) ==
    IF s_listener # None /\ "relay" \notin DOMAIN s_listener[1]
    THEN "AttributeError"
    ELSE IF s_listener # None /\ "emitter" \notin DOMAIN s_listener[1]
    THEN "AttributeError"
    ELSE IF s_event # None /\ "relay" \notin DOMAIN s_event[1]
    THEN "AttributeError"
    ELSE IF s_event # None /\ "emitter" \notin DOMAIN s_event[1]
    THEN "AttributeError"
    ELSE
    LET listn_relay   == IF s_listener = None THEN None
                         ELSE s_listener[1].relay
        listn_emitter == IF s_listener = None THEN None
                         ELSE s_listener[1].emitter
        event_relay   == IF s_event = None THEN None ELSE s_event[1].relay
        event_emitter == IF s_event = None THEN None ELSE s_event[1].emitter
    IN  IF listn_relay # None /\ event_relay # listn_relay THEN "False"
        ELSE IF listn_emitter # None /\ event_emitter # listn_emitter
        THEN "False"
        ELSE "True"

\* a task created by asyncio.create_task(safe_method(event, method))
Task(event, method) == [event |-> event, method |-> method]

\* the for loop of Relay.emit over the listeners, from the n-th on; tasks
\* are the tasks created so far
RECURSIVE emit_loop(_, _, _, _)
emit_loop(event, listeners, n, tasks) ==
    IF n > Len(listeners) THEN [tasks |-> tasks, raised |-> "none"]
    ELSE LET listener == Objs[listeners[n]]
             sc == source_compatible(event.source, listener.source)
         IN  IF sc = "AttributeError"
             THEN [tasks |-> tasks, raised |-> "AttributeError"]
             ELSE IF sc = "False"
             THEN emit_loop(event, listeners, n + 1, tasks)
             ELSE emit_loop(event, listeners, n + 1,
                            Append(tasks, Task(event, listener.method)))

\* Relay.emit: the index after the query, the tasks created in creation
\* order, and the exception that leaves emit ("none" when it returns)
emit(reg, event) ==
    LET q == get_by_event(reg, event.channel, event.event_type, "Listener")
        l == emit_loop(event, q.res, 1, <<>>)
    IN  [reg |-> q.reg, tasks |-> l.tasks, raised |-> l.raised]

\* what the body of an emitter method returns
Payload(method) == "p"

\* the for loop of the @emits wrapper over the Emitter bindings of the
\* method, for the value result that the body returned
RECURSIVE emit_each(_, _, _, _, _, _)
emit_each(reg, method, result, emitters, n, tasks) ==
    IF n > Len(emitters)
    THEN [reg |-> reg, tasks |-> tasks, raised |-> "none"]
    ELSE LET emitter == Objs[emitters[n]]
             e == emit(reg,
                       Event(result, emitter.channel, emitter.event_type,
                             Some(SourceInfo([relay |-> method.self,
                                              emitter |-> Some(method)]))))
         IN  IF e.raised # "none"
             THEN [reg |-> e.reg, tasks |-> tasks \o e.tasks,
                   raised |-> e.raised]
             ELSE emit_each(e.reg, method, result, emitters, n + 1,
                            tasks \o e.tasks)

\* that loop for an emitter method that takes no event
emits_loop(reg, method, emitters, n, tasks) ==
    emit_each(reg, method, Payload(method), emitters, n, tasks)

\* what the body of a method that is both a listener and an emitter returns
\* for an event with the given data
Reemitted(method, data) == method.name \o ": " \o data

\* the emitting part of the @emits wrapper, for the value result that the
\* body returned
emits_result(reg, method, result) ==
    LET q == get_by_method(reg, method, "Emitter")
    IN  emit_each(q.reg, method, result, q.res, 1, <<>>)

\* the wrappers of Relay.emits and Relay.listens around such a method, run
\* for an event whose data is of the type the method declares
listens_emits_wrapper(reg, method, event) ==
    emits_result(reg, method, Reemitted(method, event.data))

\* the wrapper that Relay.emits puts around an emitter method whose body
\* returns a payload of the declared type
emits_wrapper(reg, method) ==
    LET q == get_by_method(reg, method, "Emitter")
    IN  emits_loop(q.reg, method, q.res, 1, <<>>)

\* what the body of an emitter method does: it raises, or it returns a value,
\* as it is or wrapped in Relay.NoEmit
Raise == [kind |-> "raise", data |-> ""]
Return(data) == [kind |-> "return", data |-> data]
ReturnNoEmit(data) == [kind |-> "no_emit", data |-> data]

\* the return annotation of the emitter methods, and a value of another
\* type
ret_annotation == "DummyData"
BadPayload == "123"
TypeOf(data) == IF data = BadPayload THEN "int" ELSE "DummyData"

\* type_check(value, type_hint) for a type hint that is Any or a class
type_check(value, type_hint) ==
    IF type_hint = "Any" THEN TRUE ELSE TypeOf(value) = type_hint

\* the outcome of a wrapper call that got as far as emitting
Emitted(w, result) ==
    [reg |-> w.reg, tasks |-> w.tasks, raised |-> w.raised,
     ret |-> IF w.raised = "none" THEN result.data ELSE "None"]

\* the wrapper as it would be if it checked the type after emitting
wrapper_ChecksAfterEmit(reg, method, result) ==
    IF result.kind = "raise"
    THEN [reg |-> reg, tasks |-> <<>>, raised |-> "Exception", ret |-> "None"]
    ELSE IF result.kind = "no_emit"
    THEN IF ~type_check(result.data, ret_annotation)
         THEN [reg |-> reg, tasks |-> <<>>, raised |-> "TypeError",
               ret |-> "None"]
         ELSE [reg |-> reg, tasks |-> <<>>, raised |-> "none",
               ret |-> result.data]
    ELSE IF ~type_check(result.data, ret_annotation)
    THEN Emitted([emits_result(reg, method, result.data) EXCEPT
                      !.raised = IF @ = "none" THEN "TypeError" ELSE @],
                 result)
    ELSE Emitted(emits_result(reg, method, result.data), result)

\* the wrapper as it would be if it took a NoEmit for its data
wrapper_IgnoresNoEmit(reg, method, result) ==
    IF result.kind = "raise"
    THEN [reg |-> reg, tasks |-> <<>>, raised |-> "Exception", ret |-> "None"]
    ELSE IF ~type_check(result.data, ret_annotation)
    THEN [reg |-> reg, tasks |-> <<>>, raised |-> "TypeError", ret |-> "None"]
    ELSE Emitted(emits_result(reg, method, result.data), result)

\* the wrapper of Relay.emits around a method of a Relay instance, for each
\* thing the body can do
wrapper(reg, method, result) ==
    IF result.kind = "raise"
    THEN [reg |-> reg, tasks |-> <<>>, raised |-> "Exception", ret |-> "None"]
    ELSE IF ~type_check(result.data, ret_annotation)
    THEN [reg |-> reg, tasks |-> <<>>, raised |-> "TypeError", ret |-> "None"]
    ELSE IF result.kind = "no_emit"
    THEN [reg |-> reg, tasks |-> <<>>, raised |-> "none", ret |-> result.data]
    ELSE Emitted(emits_result(reg, method, result.data), result)

\* ------------------------------------------------------------------- state
VARIABLES
    by_chnl_and_type,   \* Bindings._by_chnl_and_type
    by_relay,           \* Bindings._by_relay
    by_method,          \* Bindings._by_method
    ready,              \* the event loop's queue of tasks ready to run
    running,            \* "main" while the caller's coroutine runs
    done,               \* the listener invocations that have finished
    last,               \* the latest call of the caller and its outcome
    calls               \* calls of queries, emit and emitter methods so far

vars == <<by_chnl_and_type, by_relay, by_method, ready, running, done,
          last, calls>>

Reg == [ct |-> by_chnl_and_type, rel |-> by_relay, met |-> by_method]

SetReg(reg) ==
    /\ by_chnl_and_type' = reg.ct
    /\ by_relay' = reg.rel
    /\ by_method' = reg.met

\* the caller's own coroutine, as an entry of the ready queue
MainTask == Task(Event("", <<>>, <<>>, None), FreeFunction("main"))

\* the record of a call with an outcome: the operation, its arguments (id: a
\* binding object, owner: an Optional owner, pattern: channel and
\* event_type, filter, method, event: Optional), the list it returned (res),
\* the tasks it created and the exception that left it; for a call of an
\* emitter method whose body is chosen, what the body did (body: Optional).
\* A call that returns None and raises nothing leaves NoCall.
NoCall ==
    [op |-> "none", id |-> 0, owner |-> None, pattern |-> <<>>,
     filter |-> "", method |-> None, event |-> None, res |-> <<>>,
     tasks |-> <<>>, raised |-> "none", msg |-> "", ret |-> "None",
     body |-> None]

\* the bindings held by each index
Elems(lst) == {lst[n] : n \in DOMAIN lst}
InInner(inner) == UNION {Elems(inner[m].v) : m \in DOMAIN inner}
InCt(ct) == UNION {InInner(ct[n].v) : n \in DOMAIN ct}
InRel(rel) == UNION {Elems(rel[o]) : o \in DOMAIN rel}
InMet(met) == UNION {Elems(met[m]) : m \in DOMAIN met}

Init ==
    /\ by_chnl_and_type = <<>>
    /\ by_relay = EmptyFn
    /\ by_method = EmptyFn
    /\ ready = <<>>
    /\ running = "main"
    /\ done = <<>>
    /\ last = NoCall
    /\ calls = 0

\* ----------------------------------------------------------------- inputs
Filters == {"Binding", "Listener", "Emitter"}
Owners == {None} \cup {Some(r) : r \in Relays}
Methods == {Objs[i].method : i \in Ids}
EmitterMethods == {BoundMethod(R1, "emt")}
\* the methods that are both listeners and emitters
EmitterListenerMethods == {BoundMethod(R1, "mid")}
\* channel and event_type arguments of get_by_event
ChannelArgs == {ChA, ChB, <<STAR>>}
EventTypeArgs == {EtX, <<STAR>>}
\* patterns handed to get_by_event by a caller that looks bindings up
ChannelPatterns ==
    { ChA, <<STAR>>, <<STAR, STAR>>, <<"a", STAR>>, <<STAR, "a">>,
      <<"a", STAR, "a">>, <<STAR, "b", STAR>> }
EventTypePatterns == { EtX, <<STAR>>, <<"x", STAR>>, <<STAR, "y">> }
\* the binding objects that caller registers
LookupIds == {1, 6, 7, 8, 9}
\* events handed to Relay.emit by the caller
Events ==
    { Event("p", ChA, EtX, None),
      Event("p", ChA, EtX,
            Some(SourceInfo([relay |-> Some(R1),
                             emitter |-> Some(BoundMethod(R1, "emt"))]))) }

\* what the body of the emitter method m can do
Results(m) ==
    { Raise, Return(Payload(m)), Return(BadPayload),
      ReturnNoEmit(Payload(m)), ReturnNoEmit(BadPayload) }

\* what the body of a listener method does with an event: it raises, or it
\* completes its side effect
ListenerOutcome(method, event) ==
    IF method.name = "bad" THEN "raised" ELSE "ok"

\* the strings of at most n characters of an alphabet
Strings(alphabet, n) == UNION {[1..k -> alphabet] : k \in 0..n}
\* candidates and patterns handed to the matcher on its own
Candidates == Strings({"a", "b"}, MaxLen)
Patterns == Strings({"a", "b", STAR}, MaxLen)

\* the schema that Relay.listens reads off the event parameter of a
\* listener method: Event is Event[Any]
event_schema(method) == IF method.name = "any" THEN "Any" ELSE "DummyData"

\* the wrapper as it would be if it handed every event to the body
listens_wrapper_NoValidation(method, event) == ListenerOutcome(method, event)

\* the wrapper of Relay.listens around a listener method of a Relay
\* instance: an event whose data is not of the schema raises TypeError
\* before the body runs ("rejected")
listens_wrapper(method, event) ==
    IF ~type_check(event.data, event_schema(method)) THEN "rejected"
    ELSE ListenerOutcome(method, event)

\* the record of a finished run of safe_method(event, method)
Invocation(t) ==
    [method |-> t.method, event |-> t.event,
     outcome |-> listens_wrapper(t.method, t.event)]

RECURSIVE Invocations(_)
Invocations(tasks) ==
    IF tasks = <<>> THEN <<>>
    ELSE <<Invocation(Head(tasks))>> \o Invocations(Tail(tasks))

\* ---------------------------------------------------------------- actions
\* Bindings.add(binding) / Relay.add_binding(binding)
Add(i) ==
    /\ running = "main"
    /\ IF get_binding_data(i).ok
       THEN /\ Cardinality(InRel(add(Reg, i).rel)) <= MaxBindings
            /\ SetReg(add(Reg, i))
            /\ last' = NoCall
       ELSE /\ UNCHANGED <<by_chnl_and_type, by_relay, by_method>>
            /\ last' = [NoCall EXCEPT !.op = "add", !.id = i,
                                         !.raised = "ValueError",
                                         !.msg = err_msg]
    /\ UNCHANGED <<ready, running, done, calls>>

\* remove as it would be if it passed over a binding whose method has no
\* owner
Remove_SilentNoOp(i) ==
    /\ running = "main"
    /\ IF get_binding_data(i).ok
       THEN /\ SetReg(remove(Reg, i))
            /\ last' = NoCall
       ELSE /\ UNCHANGED <<by_chnl_and_type, by_relay, by_method>>
            /\ last' = NoCall
    /\ UNCHANGED <<ready, running, done, calls>>

\* Bindings.remove(binding) / Relay.remove_binding(binding)
Remove(i) ==
    /\ running = "main"
    /\ IF get_binding_data(i).ok
       THEN /\ SetReg(remove(Reg, i))
            /\ last' = NoCall
       ELSE /\ UNCHANGED <<by_chnl_and_type, by_relay, by_method>>
            /\ last' = [NoCall EXCEPT !.op = "remove", !.id = i,
                                         !.raised = "ValueError",
                                         !.msg = err_msg]
    /\ UNCHANGED <<ready, running, done, calls>>

\* Bindings.add(Listener(...)) or Bindings.add(Emitter(...)) with the
\* arguments of entry i: the constructor validates channel and event_type
\* first, and add runs when it returns a binding
ConstructAndAdd(i) ==
    IF rejected(Objs[i]) = {} THEN Add(i)
    ELSE /\ running = "main"
         /\ \E c \in rejected(Objs[i]) :
               last' = [NoCall EXCEPT !.op = "construct", !.id = i,
                                      !.raised = "ValueError",
                                      !.msg = ForbiddenMsg(c)]
         /\ UNCHANGED <<by_chnl_and_type, by_relay, by_method, ready,
                        running, done, calls>>

\* Bindings.remove(None)
RemoveNone ==
    /\ running = "main"
    /\ SetReg(remove_optional(Reg, None))
    /\ last' = NoCall
    /\ UNCHANGED <<ready, running, done, calls>>

\* Bindings.remove_relay(relay) / Relay.remove_binding_relay()
RemoveRelay(o) ==
    /\ running = "main"
    /\ SetReg(remove_relay(Reg, o))
    /\ last' = NoCall
    /\ UNCHANGED <<ready, running, done, calls>>

\* Bindings.clear()
Clear ==
    /\ running = "main"
    /\ SetReg(clear(Reg))
    /\ last' = NoCall
    /\ UNCHANGED <<ready, running, done, calls>>

\* Bindings.get_by_event(channel, event_type, filter_)
GetByEvent(c, e, f) ==
    /\ running = "main"
    /\ calls < MaxCalls
    /\ LET q == get_by_event(Reg, c, e, f)
       IN  /\ SetReg(q.reg)
           /\ last' = [NoCall EXCEPT !.op = "get_by_event",
                                    !.pattern = <<c, e>>, !.filter = f,
                                    !.res = q.res]
    /\ calls' = calls + 1
    /\ UNCHANGED <<ready, running, done>>

\* get_by_relay as it would be if _by_relay were a plain dict
GetByRelay_PlainDict(r, f) ==
    /\ running = "main"
    /\ calls < MaxCalls
    /\ LET q == get_by_relay(Reg, r, f)
       IN  IF r \in DOMAIN by_relay
           THEN /\ SetReg(q.reg)
                /\ last' = [NoCall EXCEPT !.op = "get_by_relay",
                                         !.owner = Some(r), !.filter = f,
                                         !.res = q.res]
           ELSE /\ UNCHANGED <<by_chnl_and_type, by_relay, by_method>>
                /\ last' = [NoCall EXCEPT !.op = "get_by_relay",
                                         !.owner = Some(r), !.filter = f,
                                         !.raised = "KeyError"]
    /\ calls' = calls + 1
    /\ UNCHANGED <<ready, running, done>>

\* Bindings.get_by_relay(relay, filter_)
GetByRelay(r, f) ==
    /\ running = "main"
    /\ calls < MaxCalls
    /\ LET q == get_by_relay(Reg, r, f)
       IN  /\ SetReg(q.reg)
           /\ last' = [NoCall EXCEPT !.op = "get_by_relay",
                                    !.owner = Some(r), !.filter = f,
                                    !.res = q.res]
    /\ calls' = calls + 1
    /\ UNCHANGED <<ready, running, done>>

\* Bindings.get_by_method(func, filter_)
GetByMethod(m, f) ==
    /\ running = "main"
    /\ calls < MaxCalls
    /\ LET q == get_by_method(Reg, m, f)
       IN  /\ SetReg(q.reg)
           /\ last' = [NoCall EXCEPT !.op = "get_by_method",
                                    !.method = Some(m), !.filter = f,
                                    !.res = q.res]
    /\ calls' = calls + 1
    /\ UNCHANGED <<ready, running, done>>

\* emit as it would be if it awaited the listeners instead of creating tasks
Emit_AwaitsListeners(ev) ==
    /\ running = "main"
    /\ calls < MaxCalls
    /\ LET e == emit(Reg, ev)
       IN  /\ SetReg(e.reg)
           /\ done' = done \o Invocations(e.tasks)
           /\ last' = [NoCall EXCEPT !.op = "emit", !.event = Some(ev),
                                    !.tasks = e.tasks,
                                    !.raised = e.raised]
    /\ calls' = calls + 1
    /\ UNCHANGED <<running, ready>>

\* await Relay.emit(event), called by the caller's coroutine.  emit has no
\* await of its own: the tasks it creates join the ready queue and the
\* caller goes on.
Emit(ev) ==
    /\ running = "main"
    /\ calls < MaxCalls
    /\ LET e == emit(Reg, ev)
       IN  /\ SetReg(e.reg)
           /\ ready' = ready \o e.tasks
           /\ last' = [NoCall EXCEPT !.op = "emit", !.event = Some(ev),
                                    !.tasks = e.tasks,
                                    !.raised = e.raised]
    /\ calls' = calls + 1
    /\ UNCHANGED <<running, done>>

\* await relay.emitter(), an @emits method, called by the caller's coroutine
CallEmitter(m) ==
    /\ running = "main"
    /\ calls < MaxCalls
    /\ LET w == emits_wrapper(Reg, m)
       IN  /\ SetReg(w.reg)
           /\ ready' = ready \o w.tasks
           /\ last' = [NoCall EXCEPT !.op = "call", !.method = Some(m),
                                    !.tasks = w.tasks,
                                    !.raised = w.raised]
    /\ calls' = calls + 1
    /\ UNCHANGED <<running, done>>

\* what a call of an emitter method leaves, given the outcome w of its
\* wrapper
Called(w, m, result) ==
    /\ SetReg(w.reg)
    /\ ready' = ready \o w.tasks
    /\ last' = [NoCall EXCEPT !.op = "call", !.method = Some(m),
                             !.body = Some(result), !.tasks = w.tasks,
                             !.raised = w.raised, !.ret = w.ret]

\* await relay.emitter(), an @emits method whose body does result, called
\* by the caller's coroutine
CallEmitterBody(m, result) ==
    /\ running = "main"
    /\ calls < MaxCalls
    /\ Called(wrapper(Reg, m, result), m, result)
    /\ calls' = calls + 1
    /\ UNCHANGED <<running, done>>

\* what the emitter returns at the call number i of a sequence of calls
EventName(i) == "event_" \o ToString(i)

\* await relay.emitter(f"event_{i}"), the next call of a sequence of calls
\* of one emitter method, whose body returns a value made of its argument
CallInSequence(m) ==
    /\ running = "main"
    /\ calls < MaxSequence
    /\ Called(wrapper(Reg, m, Return(EventName(calls))), m,
              Return(EventName(calls)))
    /\ calls' = calls + 1
    /\ UNCHANGED <<running, done>>

\* the caller's coroutine reaches a suspension point (await asyncio.sleep(0))
Yield ==
    /\ running = "main"
    /\ ready' = Append(ready, MainTask)
    /\ running' = "loop"
    /\ last' = NoCall
    /\ UNCHANGED <<by_chnl_and_type, by_relay, by_method, done, calls>>

\* the task step as it would be if a task looked its listener up again and
\* gave up when the binding is gone
RunTask_ChecksRegistry ==
    /\ running = "loop"
    /\ ready # <<>>
    /\ Head(ready) # MainTask
    /\ Head(ready).method \notin EmitterListenerMethods
    /\ LET t == Head(ready)
       IN  IF \E i \in InRel(by_relay) : Objs[i].method = t.method
           THEN done' = Append(done, Invocation(t))
           ELSE done' = done
    /\ ready' = Tail(ready)
    /\ UNCHANGED <<by_chnl_and_type, by_relay, by_method, running, last,
                   calls>>

\* the task step as it would be if a task could start while the caller's
\* coroutine is running
RunTask_WhileCallerRuns ==
    /\ ready # <<>>
    /\ Head(ready) # MainTask
    /\ Head(ready).method \notin EmitterListenerMethods
    /\ LET t == Head(ready)
       IN  done' = Append(done, Invocation(t))
    /\ ready' = Tail(ready)
    /\ UNCHANGED <<by_chnl_and_type, by_relay, by_method, running, last,
                   calls>>

\* the task step as it would be if a task that has run were put back on
\* the ready queue
RunTask_Reschedules ==
    /\ running = "loop"
    /\ ready # <<>>
    /\ Head(ready) # MainTask
    /\ Head(ready).method \notin EmitterListenerMethods
    /\ ready' = Append(Tail(ready), Head(ready))
    /\ UNCHANGED <<by_chnl_and_type, by_relay, by_method, running, last,
                   calls, done>>

\* the event loop runs the next ready task, whose method is a listener
\* only: safe_method awaits the listener and catches what it raises
RunTask ==
    /\ running = "loop"
    /\ ready # <<>>
    /\ Head(ready) # MainTask
    /\ Head(ready).method \notin EmitterListenerMethods
    /\ LET t == Head(ready)
       IN  done' = Append(done, Invocation(t))
    /\ ready' = Tail(ready)
    /\ UNCHANGED <<by_chnl_and_type, by_relay, by_method, running, last,
                   calls>>

\* what the run of a task of a listener that is an emitter too leaves,
\* given the outcome w of its wrappers
Reemit(w) ==
    /\ SetReg(w.reg)
    /\ ready' = Tail(ready) \o w.tasks
    /\ done' = Append(done,
                      [method |-> Head(ready).method,
                       event |-> Head(ready).event,
                       outcome |-> IF w.raised = "none" THEN "ok"
                                   ELSE "raised"])

\* the event loop runs the next ready task, whose method is a listener and
\* an emitter: the method emits what its body returns, and safe_method
\* catches what leaves it
RunEmitterTask ==
    /\ running = "loop"
    /\ ready # <<>>
    /\ Head(ready) # MainTask
    /\ Head(ready).method \in EmitterListenerMethods
    /\ Reemit(listens_emits_wrapper(Reg, Head(ready).method,
                                    Head(ready).event))
    /\ UNCHANGED <<running, last, calls>>

\* the event loop resumes the caller's coroutine
ResumeMain ==
    /\ running = "loop"
    /\ ready # <<>>
    /\ Head(ready) = MainTask
    /\ ready' = Tail(ready)
    /\ running' = "main"
    /\ UNCHANGED <<by_chnl_and_type, by_relay, by_method, done, last,
                   calls>>

\* the caller changes the registry
Mutate ==
    \/ \E i \in Ids : Add(i)
    \/ \E i \in Ids : Remove(i)
    \/ \E o \in Owners : RemoveRelay(o)
    \/ Clear

\* the caller queries the registry
Query ==
    \/ \E c \in ChannelArgs, e \in EventTypeArgs, f \in Filters :
           GetByEvent(c, e, f)
    \/ \E r \in Relays, f \in Filters : GetByRelay(r, f)
    \/ \E m \in Methods, f \in Filters : GetByMethod(m, f)

\* the caller emits and suspends, and the event loop runs what is ready
Dispatch ==
    \/ \E ev \in Events : Emit(ev)
    \/ \E m \in EmitterMethods : CallEmitter(m)
    \/ Yield
    \/ RunTask
    \/ ResumeMain

Next == Mutate \/ Query \/ Dispatch

Spec == Init /\ [][Next]_vars

\* a program that uses the Bindings registry alone
NextBindings == Mutate \/ Query

SpecBindings == Init /\ [][NextBindings]_vars

\* a program that registers bindings and looks them up by pattern
MutateLookup ==
    \/ \E i \in LookupIds : Add(i)
    \/ \E i \in LookupIds : Remove(i)
    \/ Clear

Lookup ==
    \E c \in ChannelPatterns, e \in EventTypePatterns :
        GetByEvent(c, e, "Binding")

NextLookup == MutateLookup \/ Lookup

SpecLookup == Init /\ [][NextLookup]_vars

\* a program that registers bindings of every sort of callable
AddIds == {1, 2, 4, 6, 10, 11, 12, 13}

NextAdd ==
    \/ \E i \in AddIds : Add(i)
    \/ \E i \in AddIds : Remove(i)
    \/ Clear

SpecAdd == Init /\ [][NextAdd]_vars

\* the matcher on its own: a candidate and a pattern are chosen, then
\* _matches_pattern(candidate, pattern) is called
InitMatch ==
    /\ by_chnl_and_type = <<>>
    /\ by_relay = EmptyFn
    /\ by_method = EmptyFn
    /\ ready = <<>>
    /\ running = "main"
    /\ done = <<>>
    /\ \E s \in Candidates, pattern \in Patterns :
           last = [NoCall EXCEPT !.op = "args", !.pattern = <<s, pattern>>]
    /\ calls = 0

MatchesPattern ==
    /\ last.op = "args"
    /\ last' = [last EXCEPT
                   !.op = "matches_pattern",
                   !.ret = IF matches_pattern(last.pattern[1],
                                              last.pattern[2])
                           THEN "True" ELSE "False"]
    /\ UNCHANGED <<by_chnl_and_type, by_relay, by_method, ready, running,
                   done, calls>>

NextMatch == MatchesPattern

SpecMatch == InitMatch /\ [][NextMatch]_vars

\* a program that registers bindings and emits, without queries of its own
NextDispatch == Mutate \/ Dispatch

SpecDispatch == Init /\ [][NextDispatch]_vars

\* the event loop keeps running ready tasks and the caller keeps reaching
\* suspension points
FairSpec ==
    Spec /\ WF_vars(RunTask) /\ WF_vars(ResumeMain) /\ WF_vars(Yield)

\* a program that has registered one or two bindings, and then queries,
\* emits and clears the registry
ClearIds == {1, 3, 4, 6}

InitClear ==
    /\ \E i, j \in ClearIds :
          /\ by_chnl_and_type = add(add(EmptyReg, i), j).ct
          /\ by_relay = add(add(EmptyReg, i), j).rel
          /\ by_method = add(add(EmptyReg, i), j).met
    /\ ready = <<>>
    /\ running = "main"
    /\ done = <<>>
    /\ last = NoCall
    /\ calls = 0

NextClear ==
    \/ Clear
    \/ Query
    \/ \E ev \in Events : Emit(ev)

SpecClear == InitClear /\ [][NextClear]_vars

\* a program that registers and unregisters bindings, one by one and owner
\* by owner, and looks them up by owner
NextRemove ==
    \/ Mutate
    \/ RemoveNone
    \/ \E r \in Relays, f \in Filters : GetByRelay(r, f)

SpecRemove == Init /\ [][NextRemove]_vars

\* a program that registers an emitter and listeners and calls the emitter
\* method, whose body raises or returns
EmitterIds == {1, 2, 3, 4, 6}

NextEmitter ==
    \/ \E i \in EmitterIds : Add(i)
    \/ \E i \in EmitterIds : Remove(i)
    \/ \E m \in EmitterMethods : \E result \in Results(m) :
           CallEmitterBody(m, result)

SpecEmitter == Init /\ [][NextEmitter]_vars

\* a program that has registered some of the bindings of a chain (an
\* emitter, a method bound as listener and as emitter, a last listener) and
\* then emits, calls the emitter and lets the event loop run
ChainIds == {1, 4, 7, 14, 15}

RECURSIVE add_all(_, _)
add_all(reg, ids) ==
    IF ids = {} THEN reg
    ELSE LET i == CHOOSE i \in ids : \A j \in ids : i <= j
         IN  add_all(add(reg, i), ids \ {i})

InitChain ==
    /\ \E ids \in SUBSET ChainIds :
          /\ by_chnl_and_type = add_all(EmptyReg, ids).ct
          /\ by_relay = add_all(EmptyReg, ids).rel
          /\ by_method = add_all(EmptyReg, ids).met
    /\ ready = <<>>
    /\ running = "main"
    /\ done = <<>>
    /\ last = NoCall
    /\ calls = 0

NextChain == Dispatch \/ RunEmitterTask

SpecChain == InitChain /\ [][NextChain]_vars

\* the event loop keeps running ready tasks and the caller keeps reaching
\* suspension points
FairChain ==
    /\ SpecChain
    /\ WF_vars(RunTask) /\ WF_vars(RunEmitterTask)
    /\ WF_vars(ResumeMain) /\ WF_vars(Yield)

\* a program that has registered some of an emitter and listeners, calls the
\* emitter several times in a row and lets the event loop run
OrderIds == {1, 2, 4, 6}

InitOrder ==
    /\ \E ids \in SUBSET OrderIds :
          /\ by_chnl_and_type = add_all(EmptyReg, ids).ct
          /\ by_relay = add_all(EmptyReg, ids).rel
          /\ by_method = add_all(EmptyReg, ids).met
    /\ ready = <<>>
    /\ running = "main"
    /\ done = <<>>
    /\ last = NoCall
    /\ calls = 0

NextOrder ==
    \/ \E m \in EmitterMethods : CallInSequence(m)
    \/ \E ev \in Events : Emit(ev)
    \/ Yield
    \/ RunTask
    \/ ResumeMain

SpecOrder == InitOrder /\ [][NextOrder]_vars

\* the event loop keeps running ready tasks and the caller keeps reaching
\* suspension points
FairOrder ==
    SpecOrder /\ WF_vars(RunTask) /\ WF_vars(ResumeMain) /\ WF_vars(Yield)

\* a program that constructs bindings with and without forbidden
\* characters, registers those it gets, and looks bindings up by channels
\* and event types of its choice
ForbiddenIds == {1, 4, 6, 16, 17}
ForbiddenChannelArgs == {ChA, <<"a", ":">>, <<STAR>>}
ForbiddenEventTypeArgs == {EtX, <<"x", ":">>}

NextForbidden ==
    \/ \E i \in ForbiddenIds : ConstructAndAdd(i)
    \/ \E i \in ForbiddenIds : rejected(Objs[i]) = {} /\ Remove(i)
    \/ \E c \in ForbiddenChannelArgs, e \in ForbiddenEventTypeArgs,
          f \in Filters : GetByEvent(c, e, f)

SpecForbidden == Init /\ [][NextForbidden]_vars

\* a program that registers listeners with and without a schema, emits
\* events with data of the schema and of another type, and lets the event
\* loop run
ListenIds == {1, 2, 18}
ListenEvents ==
    { Event("p", ChA, EtX, None), Event(BadPayload, ChA, EtX, None) }

NextListens ==
    \/ \E i \in ListenIds : Add(i)
    \/ \E i \in ListenIds : Remove(i)
    \/ \E ev \in ListenEvents : Emit(ev)
    \/ Yield
    \/ RunTask
    \/ ResumeMain

SpecListens == Init /\ [][NextListens]_vars

\* ------------------------------------------------------ notions of claims
\* where a binding is filed, index by index
AtEvent(ct, i) ==
    i \in Elems(DGetOr(DGetOr(ct, Objs[i].channel, <<>>),
                       Objs[i].event_type, <<>>))
AtOwner(rel, i) == i \in Elems(FGetOr(rel, Objs[i].method.self[1], <<>>))
AtMethod(met, i) == i \in Elems(FGetOr(met, Objs[i].method, <<>>))

\* C1: index coherence.  In every reachable state a binding is filed in the
\* (channel, event_type) index under its own channel and event_type if and
\* only if it is filed in the owner index under its method's owner, if and
\* only if it is filed in the method index under its method; and no index
\* holds a binding anywhere else.
C1_IndexCoherence ==
    /\ \A i \in Ids :
          /\ AtEvent(by_chnl_and_type, i) <=> AtOwner(by_relay, i)
          /\ AtOwner(by_relay, i) <=> AtMethod(by_method, i)
    /\ InCt(by_chnl_and_type) = {i \in Ids : AtEvent(by_chnl_and_type, i)}
    /\ InRel(by_relay) = {i \in Ids : AtOwner(by_relay, i)}
    /\ InMet(by_method) = {i \in Ids : AtMethod(by_method, i)}

\* two bindings of different owners and different event types are filed in
\* all three indexes
C1_Witness ==
    \E i, j \in Ids :
        /\ Objs[i].method.self # Objs[j].method.self
        /\ Objs[i].event_type # Objs[j].event_type
        /\ InCt(by_chnl_and_type) = {i, j}
        /\ InRel(by_relay) = {i, j}
        /\ InMet(by_method) = {i, j}

\* C2: when remove_relay(owner) returns, no binding that was filed under
\* the owner is left in any index and the owner is no key of the owner
\* index, however many bindings the owner had.
C2_RemoveRelayRemovesAll ==
    [][\A r \in Relays :
          RemoveRelay(Some(r)) =>
              /\ r \notin DOMAIN by_relay'
              /\ \A i \in Elems(FGetOr(by_relay, r, <<>>)) :
                    /\ i \notin InCt(by_chnl_and_type')
                    /\ i \notin InRel(by_relay')
                    /\ i \notin InMet(by_method')]_vars

\* the rule of the source filter as the claims state it: a listener without
\* source accepts every event; otherwise every field of the listener's
\* source that is not None must equal the same field of the event's source
ClaimCompatible(s_event, s_listener) ==
    \/ s_listener = None
    \/ \A f \in DOMAIN s_listener[1] :
          s_listener[1][f] # None =>
              /\ s_event # None
              /\ s_event[1][f] = s_listener[1][f]

Registered == InRel(by_relay)

\* the listeners an event without wildcard is meant to reach
Expected(ev) ==
    {i \in Registered :
        /\ Objs[i].kind = "Listener"
        /\ Objs[i].channel = ev.channel
        /\ Objs[i].event_type = ev.event_type
        /\ ClaimCompatible(ev.source, Objs[i].source)}

\* the tasks that the step appended to the ready queue
Created == SubSeq(ready', Len(ready) + 1, Len(ready'))

Raises(i) == ListenerOutcome(Objs[i].method, Objs[i]) = "raised"

\* C3: fan-out isolation.  When an event is emitted to two or more
\* listeners of which one raises when invoked, emit does not raise and
\* every listener the event is meant to reach has its task; and running the
\* task of a raising listener takes nothing but that task off the queue.
C3_FanOutIsolation ==
    [][/\ \A ev \in Events :
             (/\ Emit(ev)
              /\ ~HasStar(ev.channel)
              /\ Cardinality(Expected(ev)) >= 2
              /\ \E i \in Expected(ev) : Raises(i))
             => /\ last'.raised = "none"
                /\ \A i \in Expected(ev) :
                      \E n \in DOMAIN Created :
                          Created[n] = Task(ev, Objs[i].method)
       /\ RunTask => ready' = Tail(ready)]_vars

\* C4: emit creates exactly one task for each listener that is registered
\* under the event's channel and event_type and compatible with its source,
\* and no other task.
C4_EmitSchedulesExactlyMatching ==
    [][\A ev \in Events :
          (Emit(ev) /\ ~HasStar(ev.channel) /\ ~HasStar(ev.event_type))
          => /\ Len(Created) = Cardinality(Expected(ev))
             /\ \A i \in Expected(ev) :
                   \E n \in DOMAIN Created :
                       Created[n] = Task(ev, Objs[i].method)
             /\ \A n \in DOMAIN Created :
                   \E i \in Expected(ev) :
                       Created[n] = Task(ev, Objs[i].method)]_vars

\* C5: for every registered listener and every event source, the source
\* filter answers by the rule: compatible when the listener has no source,
\* otherwise field by field.
C5_SourceAffinity ==
    \A i \in Registered, ev \in Events :
        Objs[i].kind = "Listener" =>
            source_compatible(ev.source, Objs[i].source)
                = IF ClaimCompatible(ev.source, Objs[i].source)
                  THEN "True" ELSE "False"

\* the source that the @emits wrapper gives the events of a method
WrapperSource(m) ==
    Some(SourceInfo([relay |-> m.self, emitter |-> Some(m)]))

\* C6: eventual delivery.  Once an emitter method bound to (c, t) has been
\* called, every compatible listener bound to (c, t) is eventually invoked
\* with an event that carries the method's payload, c and t.
C6_EventualDelivery ==
    \A m \in EmitterMethods, e \in Ids, l \in Ids :
        (/\ Objs[e].kind = "Emitter" /\ Objs[e].method = m
         /\ Objs[l].kind = "Listener"
         /\ Objs[l].channel = Objs[e].channel
         /\ Objs[l].event_type = Objs[e].event_type
         /\ ClaimCompatible(WrapperSource(m), Objs[l].source))
        => []((/\ last.op = "call" /\ last.method = Some(m)
               /\ e \in Registered /\ l \in Registered)
              => <>(\E n \in DOMAIN done :
                       /\ done[n].method = Objs[l].method
                       /\ done[n].event.data = Payload(m)
                       /\ done[n].event.channel = Objs[e].channel
                       /\ done[n].event.event_type = Objs[e].event_type))

IsPrefix(s, t) == Len(s) <= Len(t) /\ SubSeq(t, 1, Len(s)) = s

\* C7: snapshot semantics, no cancellation.  No step takes a task off the
\* ready queue except the event loop running the task at its head, whatever
\* happens to the registry in between: every step either leaves the queue
\* as a prefix of the new queue, or runs the head task, whose invocation is
\* then recorded as finished.
C7_NoCancellation ==
    [][\/ IsPrefix(ready, ready') /\ done' = done
       \/ /\ ready # <<>>
          /\ ready' = Tail(ready)
          /\ IF Head(ready) = MainTask THEN done' = done
             ELSE done' = Append(done, Invocation(Head(ready)))]_vars

\* the event loop is about to run a listener task although no binding of
\* its method is registered any more
C7_Witness ==
    /\ running = "loop"
    /\ ready # <<>>
    /\ Head(ready) # MainTask
    /\ \A i \in Registered : Objs[i].method # Head(ready).method

IsSuffix(s, t) ==
    Len(s) <= Len(t) /\ SubSeq(t, Len(t) - Len(s) + 1, Len(t)) = s

\* C8: emit does not wait for the listeners.  When emit has returned, the
\* caller is still running and every task emit created is still in the
\* ready queue; and a listener invocation finishes only in a step taken
\* while the caller is suspended.
C8_EmitDoesNotWait ==
    /\ [](last.op = "emit" =>
             running = "main" /\ IsSuffix(last.tasks, ready))
    /\ [][done' # done => running = "loop" /\ running' = "loop"]_vars

\* emit has returned to the caller and a task it created has not run
C8_Witness ==
    /\ last.op = "emit"
    /\ last.raised = "none"
    /\ last.tasks # <<>>
    /\ running = "main"
    /\ IsSuffix(last.tasks, ready)

\* the elements of s that are in the set keep, in the order of s
Restrict(s, keep) == SelectSeq(s, LAMBDA x : x \in keep)

\* t is s with some elements dropped and at most new elements appended
KeepsOrder(s, t) ==
    LET common == Elems(s) \cap Elems(t)
        n == Len(Restrict(t, common))
    IN  /\ Restrict(s, common) = SubSeq(t, 1, n)
        /\ \A k \in (n + 1)..Len(t) : t[k] \notin Elems(s)

EventList(ct, c, e) == DGetOr(DGetOr(ct, c, <<>>), e, <<>>)

\* the compatible listeners of a list, as the tasks of an event
RECURSIVE TasksOf(_, _)
TasksOf(ev, lst) ==
    IF lst = <<>> THEN <<>>
    ELSE <<Task(ev, Objs[Head(lst)].method)>> \o TasksOf(ev, Tail(lst))

\* C9: scheduling order.  Every step keeps the relative order of the
\* bindings that stay in a list of an index and puts a new binding behind
\* them, so that each list is in the order of insertion; and emit creates
\* its tasks in the order of the list that get_by_event returns.
C9_SchedulingOrder ==
    [][/\ \/ by_chnl_and_type' = by_chnl_and_type
          \/ \A c \in {ChA, ChB}, e \in {EtX, EtY} :
                KeepsOrder(EventList(by_chnl_and_type, c, e),
                           EventList(by_chnl_and_type', c, e))
       /\ \/ by_relay' = by_relay
          \/ \A r \in Relays :
                KeepsOrder(FGetOr(by_relay, r, <<>>),
                           FGetOr(by_relay', r, <<>>))
       /\ \/ by_method' = by_method
          \/ \A m \in Methods :
                KeepsOrder(FGetOr(by_method, m, <<>>),
                           FGetOr(by_method', m, <<>>))
       /\ \A ev \in Events :
             (last'.op = "emit" /\ Emit(ev)) =>
                 IsPrefix(Created,
                          TasksOf(ev, get_by_event(Reg, ev.channel,
                                                   ev.event_type,
                                                   "Listener").res))]_vars

\* emit has created two tasks, for two listeners of one list
C9_Witness ==
    /\ last.op = "emit"
    /\ Len(last.tasks) >= 2
    /\ last.tasks[1].method # last.tasks[2].method
    /\ \E c \in {ChA, ChB}, e \in {EtX, EtY} :
          Len(EventList(by_chnl_and_type, c, e)) >= 2

\* C10: exact lookup.  get_by_event(c, e, filter) with c and e free of '*'
\* returns the registered bindings whose channel is c and whose event_type
\* is e (of the kind asked for), each once, and no other.
C10_ExactLookup ==
    (/\ last.op = "get_by_event"
     /\ ~HasStar(last.pattern[1])
     /\ ~HasStar(last.pattern[2]))
    => /\ Elems(last.res) =
              {i \in Registered :
                  /\ Objs[i].channel = last.pattern[1]
                  /\ Objs[i].event_type = last.pattern[2]
                  /\ kind_check(i, last.filter)}
       /\ Cardinality(Elems(last.res)) = Len(last.res)

\* an exact lookup returned a binding while another binding was registered
\* under another event_type or another channel
C10_Witness ==
    /\ last.op = "get_by_event"
    /\ ~HasStar(last.pattern[1])
    /\ ~HasStar(last.pattern[2])
    /\ last.res # <<>>
    /\ \E i \in Registered :
          \/ Objs[i].channel = last.pattern[1]
             /\ Objs[i].event_type # last.pattern[2]
          \/ Objs[i].channel # last.pattern[1]
             /\ Objs[i].event_type = last.pattern[2]

\* glob semantics: '*' stands for any string, every other character for
\* itself
RECURSIVE Glob(_, _)
Glob(s, p) ==
    IF p = <<>> THEN s = <<>>
    ELSE IF Head(p) = STAR
    THEN Glob(s, Tail(p)) \/ (s # <<>> /\ Glob(Tail(s), p))
    ELSE s # <<>> /\ Head(s) = Head(p) /\ Glob(Tail(s), Tail(p))

\* C11: wildcard lookup.  Whatever the channel pattern and the event_type
\* pattern, with '*' in none, one or both of them, get_by_event returns
\* exactly the registered bindings of the requested kind whose channel
\* matches the channel pattern and whose event_type matches the event_type
\* pattern under glob semantics, and each of them once.
C11_WildcardLookup ==
    last.op = "get_by_event"
    => /\ Elems(last.res) =
             {i \in Registered :
                  /\ Glob(Objs[i].channel, last.pattern[1])
                  /\ Glob(Objs[i].event_type, last.pattern[2])
                  /\ kind_check(i, last.filter)}
       /\ Cardinality(Elems(last.res)) = Len(last.res)

\* a lookup with '*' in both patterns has found one of two registered
\* bindings whose channels have more than one character
C11_Witness ==
    /\ last.op = "get_by_event"
    /\ HasStar(last.pattern[1]) /\ last.pattern[1] # <<STAR>>
    /\ HasStar(last.pattern[2])
    /\ {8, 9} \subseteq Registered
    /\ Len(last.res) = 1

SameIndices == UNCHANGED <<by_chnl_and_type, by_relay, by_method>>

\* C13: idempotent removal.  remove(b) for a binding object that is not
\* registered, be it removed before or never added, raises nothing and
\* leaves the three indices exactly as they were.
C13_IdempotentRemoval ==
    [][\A i \in Ids :
          (Remove(i) /\ i \notin Registered)
          => SameIndices /\ last'.raised = "none"]_vars

\* lst without the object i
Without(lst, i) == SelectSeq(lst, LAMBDA x : x # i)

\* C14: pruning on remove.  When remove(b) returns for a registered binding
\* b, b is in no index; the list of its event_type, of its owner and of its
\* method is the list without b if others are left in it, and else the key
\* is gone; and its channel is gone if and only if no event_type is left
\* under it.  (remove makes no call that is counted; the steps that count
\* one need no look at remove.)
C14_PruningOnRemove ==
    [][\A i \in LookupIds :
          (i \in Registered /\ calls' = calls /\ Remove(i))
          => LET c     == Objs[i].channel
                 e     == Objs[i].event_type
                 o     == Objs[i].method.self[1]
                 m     == Objs[i].method
                 inner == DGet(by_chnl_and_type, c)
                 lst   == DGet(inner, e)
             IN  /\ i \notin InCt(by_chnl_and_type')
                 /\ i \notin InRel(by_relay')
                 /\ i \notin InMet(by_method')
                 /\ IF lst = <<i>> /\ DKeys(inner) = {e}
                    THEN ~DHas(by_chnl_and_type', c)
                    ELSE /\ DHas(by_chnl_and_type', c)
                         /\ IF lst = <<i>>
                            THEN ~DHas(DGet(by_chnl_and_type', c), e)
                            ELSE DGet(DGet(by_chnl_and_type', c), e)
                                     = Without(lst, i)
                         /\ \A e2 \in DKeys(inner) \ {e} :
                               DGet(DGet(by_chnl_and_type', c), e2)
                                   = DGet(inner, e2)
                 /\ \A c2 \in DKeys(by_chnl_and_type) \ {c} :
                       DGet(by_chnl_and_type', c2)
                           = DGet(by_chnl_and_type, c2)
                 /\ IF by_relay[o] = <<i>>
                    THEN by_relay' = FDel(by_relay, o)
                    ELSE by_relay'
                             = FSet(by_relay, o, Without(by_relay[o], i))
                 /\ IF by_method[m] = <<i>>
                    THEN by_method' = FDel(by_method, m)
                    ELSE by_method'
                             = FSet(by_method, m,
                                    Without(by_method[m], i))]_vars

\* the caller can remove a binding that is alone under its event_type, its
\* owner and its method while its channel holds another event_type
C14_Witness ==
    /\ running = "main"
    /\ \E i, j \in Registered :
          /\ Objs[i].channel = Objs[j].channel
          /\ Objs[i].event_type # Objs[j].event_type
          /\ by_relay[Objs[i].method.self[1]] = <<i>>
          /\ by_method[Objs[i].method] = <<i>>

\* C15: no dangling empty entries.  In every reachable state no channel
\* maps to an empty dict, and no event_type, owner or method maps to an
\* empty list.
C15_NoEmptyEntries ==
    /\ \A n \in DOMAIN by_chnl_and_type :
          /\ by_chnl_and_type[n].v # <<>>
          /\ \A m \in DOMAIN by_chnl_and_type[n].v :
                by_chnl_and_type[n].v[m].v # <<>>
    /\ \A o \in DOMAIN by_relay : by_relay[o] # <<>>
    /\ \A m \in DOMAIN by_method : by_method[m] # <<>>

\* no list of an index holds a binding object twice
NoDuplicates(lst) == Cardinality(Elems(lst)) = Len(lst)

\* C16: add is idempotent on the same object.  add(b) for a registered
\* binding b changes no index; so no list of an index ever holds a binding
\* twice, and when remove(b) returns b is in no index.
C16_AddIdempotent ==
    /\ [][\A i \in AddIds :
             (i \in Registered /\ Add(i)) => SameIndices]_vars
    /\ [](/\ \A n \in DOMAIN by_chnl_and_type :
                \A m \in DOMAIN by_chnl_and_type[n].v :
                    NoDuplicates(by_chnl_and_type[n].v[m].v)
          /\ \A o \in DOMAIN by_relay : NoDuplicates(by_relay[o])
          /\ \A m \in DOMAIN by_method : NoDuplicates(by_method[m]))
    /\ [][\A i \in AddIds :
             Remove(i) => /\ i \notin InCt(by_chnl_and_type')
                          /\ i \notin InRel(by_relay')
                          /\ i \notin InMet(by_method')]_vars

\* the caller can add a binding again that is the first of two in the list
\* of its event_type and in the list of its owner
C16_Witness ==
    /\ running = "main"
    /\ \E i, j \in Registered :
          /\ i # j
          /\ EventList(by_chnl_and_type, Objs[i].channel,
                       Objs[i].event_type) = <<i, j>>
          /\ by_relay[Objs[i].method.self[1]] = <<i, j>>

\* C17: duplicates by value are allowed.  add(b) stores the object b itself
\* in its three lists even when another object of equal content is there,
\* and remove(b) takes out b itself and leaves that other object.
C17_DuplicatesByValue ==
    [][\A i \in Ids :
          /\ Add(i) => /\ AtEvent(by_chnl_and_type', i)
                       /\ AtOwner(by_relay', i)
                       /\ AtMethod(by_method', i)
          /\ Remove(i) => \A j \in Registered \ {i} :
                              j \in InRel(by_relay')]_vars

Queries == {"get_by_event", "get_by_relay", "get_by_method"}

\* the registered bindings a query is about, whatever their kind
Selected ==
    {i \in Registered :
        CASE last.op = "get_by_event" ->
                 /\ Glob(Objs[i].channel, last.pattern[1])
                 /\ Glob(Objs[i].event_type, last.pattern[2])
          [] last.op = "get_by_relay" ->
                 Some(Objs[i].method.self[1]) = last.owner
          [] last.op = "get_by_method" -> Some(Objs[i].method) = last.method
          [] OTHER -> FALSE}

\* C19: lookup misses are no errors.  No query raises, and a query for a
\* channel, event_type, owner or method that no registered binding has
\* returns the empty list.
C19_MissesReturnEmpty ==
    last.op \in Queries
    => /\ last.raised = "none"
       /\ Selected = {} => last.res = <<>>

\* a query has missed while bindings are registered
C19_Witness ==
    /\ last.op \in {"get_by_relay", "get_by_method"}
    /\ Registered # {}
    /\ Selected = {}
    /\ last.res = <<>>

\* the list of the index a query by owner or by method reads
Underlying ==
    CASE last.op = "get_by_relay" -> FGetOr(by_relay, last.owner[1], <<>>)
      [] last.op = "get_by_method" -> FGetOr(by_method, last.method[1], <<>>)
      [] OTHER -> <<>>

KindOk(i) ==
    \/ last.filter = "Binding"
    \/ last.filter = "Listener" /\ Objs[i].kind = "Listener"
    \/ last.filter = "Emitter" /\ Objs[i].kind = "Emitter"

\* C20: kind filter.  A query returns the bindings it is about that are of
\* the requested kind, and only those: Listener bindings for the filter
\* Listener, Emitter bindings for Emitter, all of them for Binding; a query
\* by owner or by method returns them in the order of the list of its
\* index, and a query by event in the order of the unfiltered query.
C20_KindFilter ==
    last.op \in Queries
    => /\ Elems(last.res) = {i \in Selected : KindOk(i)}
       /\ last.op \in {"get_by_relay", "get_by_method"}
          => last.res = SelectSeq(Underlying, KindOk)
       /\ last.op = "get_by_event"
          => last.res =
                 SelectSeq(retrieve_by_event(by_chnl_and_type,
                                             last.pattern[1],
                                             last.pattern[2]).res,
                           KindOk)

\* a query for listeners has left out an emitter of the list it read
C20_Witness ==
    /\ last.op = "get_by_relay"
    /\ last.filter = "Listener"
    /\ last.res # <<>>
    /\ Len(last.res) < Len(Underlying)

\* no index holds a binding
NoBindings(ct, rel, met) == InCt(ct) \cup InRel(rel) \cup InMet(met) = {}

\* C21: clear.  When clear() returns the three indices are empty, whatever
\* they held; and as long as no binding is registered every query returns
\* the empty list, every emit creates no task and raises nothing, and
\* neither registers a binding.
C21_ClearEmpties ==
    /\ [][Clear => /\ by_chnl_and_type' = <<>>
                   /\ by_relay' = EmptyFn
                   /\ by_method' = EmptyFn]_vars
    /\ [][(NoBindings(by_chnl_and_type, by_relay, by_method)
           /\ calls' # calls)
          => /\ last'.res = <<>>
             /\ last'.tasks = <<>>
             /\ last'.raised = "none"
             /\ ready' = ready
             /\ NoBindings(by_chnl_and_type', by_relay', by_method')]_vars

\* an emit has found nothing after clear (the program of SpecClear starts
\* with bindings and has no other way to lose them)
C21_Witness ==
    /\ NoBindings(by_chnl_and_type, by_relay, by_method)
    /\ last.op = "emit"
    /\ last.tasks = <<>>
    /\ by_chnl_and_type # <<>>

\* the registry as the step leaves it
RegAfter ==
    [ct |-> by_chnl_and_type', rel |-> by_relay', met |-> by_method']

\* C22: null and unknown arguments are no-ops.  remove(None),
\* remove_relay(None) and remove_relay(owner) for an owner without bindings
\* raise nothing and leave the three indices as they were; and when
\* remove_relay(owner) has returned, calling it again changes nothing.
C22_NullAndUnknownAreNoOps ==
    /\ [][RemoveNone => SameIndices /\ last'.raised = "none"]_vars
    /\ [][RemoveRelay(None) => SameIndices /\ last'.raised = "none"]_vars
    /\ [][\A r \in Relays :
             (FGetOr(by_relay, r, <<>>) = <<>> /\ RemoveRelay(Some(r)))
             => SameIndices /\ last'.raised = "none"]_vars
    /\ [][\A r \in Relays :
             RemoveRelay(Some(r))
             => remove_relay(RegAfter, Some(r)) = RegAfter]_vars

\* an Emitter binding of the method m and a Listener binding of the same
\* channel and event_type are registered
EmitterAndListener(m) ==
    \E e, l \in Registered :
        /\ Objs[e].kind = "Emitter" /\ Objs[e].method = m
        /\ Objs[l].kind = "Listener"
        /\ Objs[l].channel = Objs[e].channel
        /\ Objs[l].event_type = Objs[e].event_type

\* C23: no dispatch on emitter failure.  When the body of an emitter method
\* raises, or returns a value (wrapped in NoEmit or not) that is not of the
\* declared type, the call raises to its caller (the body's exception, or
\* TypeError), creates no task and does not get as far as looking bindings
\* up.
C23_NoDispatchOnFailure ==
    [][\A m \in EmitterMethods : \A result \in Results(m) :
          (/\ \/ result.kind = "raise"
              \/ ~type_check(result.data, ret_annotation)
           /\ CallEmitterBody(m, result))
          => /\ last'.raised = IF result.kind = "raise" THEN "Exception"
                                ELSE "TypeError"
             /\ last'.tasks = <<>>
             /\ ready' = ready
             /\ SameIndices]_vars

\* a call has raised TypeError while a listener was bound to the emitter's
\* channel and event_type
C23_Witness ==
    /\ last.op = "call"
    /\ last.raised = "TypeError"
    /\ last.body = Some(Return(BadPayload))
    /\ EmitterAndListener(last.method[1])

\* C24: NoEmit.  When the body of an emitter method returns NoEmit(data)
\* with data of the declared type, the call returns data to its caller,
\* raises nothing, creates no task and does not get as far as looking
\* bindings up.
C24_NoEmit ==
    [][\A m \in EmitterMethods : \A result \in Results(m) :
          (/\ result.kind = "no_emit"
           /\ type_check(result.data, ret_annotation)
           /\ CallEmitterBody(m, result))
          => /\ last'.raised = "none"
             /\ last'.ret = result.data
             /\ last'.tasks = <<>>
             /\ ready' = ready
             /\ SameIndices]_vars

\* a call has returned the data of a NoEmit while a listener was bound to
\* the emitter's channel and event_type
C24_Witness ==
    /\ last.op = "call"
    /\ last.raised = "none"
    /\ last.body = Some(ReturnNoEmit(Payload(last.method[1])))
    /\ last.ret = Payload(last.method[1])
    /\ EmitterAndListener(last.method[1])

\* the Emitter bindings of the method m, in insertion order
EmittersOf(m) == Filter(FGetOr(by_method, m, <<>>), "Emitter")

\* the event that a call of m emits for its Emitter binding e
ClaimEvent(m, e) ==
    Event(Payload(m), Objs[e].channel, Objs[e].event_type,
          Some([relay |-> m.self, emitter |-> Some(m)]))

\* the places of the Emitter bindings of m whose event the task t carries
EmitterPlaces(m, t) ==
    {n \in DOMAIN EmittersOf(m) : t.event = ClaimEvent(m, EmittersOf(m)[n])}

\* C25: one event per emitter binding.  A call of an emitter method whose
\* body returns a payload of the declared type returns the payload and
\* raises nothing; every task it creates carries the event of one of the
\* method's Emitter bindings (the payload, the binding's channel and
\* event_type, source {relay, emitter}), the tasks follow the insertion
\* order of those bindings, every listener of such an event gets a task,
\* and with no Emitter binding there is no task.
C25_OneEventPerEmitterBinding ==
    [][\A m \in EmitterMethods :
          CallEmitterBody(m, Return(Payload(m)))
          => /\ last'.raised = "none"
             /\ last'.ret = Payload(m)
             /\ \A k \in DOMAIN last'.tasks :
                   EmitterPlaces(m, last'.tasks[k]) # {}
             /\ \A k1, k2 \in DOMAIN last'.tasks :
                   k1 < k2 =>
                       \E n1 \in EmitterPlaces(m, last'.tasks[k1]),
                          n2 \in EmitterPlaces(m, last'.tasks[k2]) : n1 <= n2
             /\ \A n \in DOMAIN EmittersOf(m) :
                   \A l \in Expected(ClaimEvent(m, EmittersOf(m)[n])) :
                       \E k \in DOMAIN last'.tasks :
                           last'.tasks[k]
                               = Task(ClaimEvent(m, EmittersOf(m)[n]),
                                      Objs[l].method)
             /\ EmittersOf(m) = <<>> => last'.tasks = <<>>]_vars

\* a is an Emitter binding, bl and be bind one method as a listener of a's
\* channel and event_type and as an emitter, and c is a listener of be's
\* channel and event_type
IsChain(a, bl, be, c) ==
    /\ Objs[a].kind = "Emitter" /\ Objs[a].method \in EmitterMethods
    /\ Objs[bl].kind = "Listener"
    /\ Objs[bl].method \in EmitterListenerMethods
    /\ Objs[bl].channel = Objs[a].channel
    /\ Objs[bl].event_type = Objs[a].event_type
    /\ Objs[be].kind = "Emitter" /\ Objs[be].method = Objs[bl].method
    /\ Objs[c].kind = "Listener"
    /\ Objs[c].method \notin EmitterListenerMethods
    /\ Objs[c].channel = Objs[be].channel
    /\ Objs[c].event_type = Objs[be].event_type

\* C26: chained fan-out.  With an emitter A, a method B bound as listener
\* of A's events and as emitter, and a listener C of B's events all
\* registered, once A has been called C is eventually invoked with the
\* data that B returns for A's payload.
C26_ChainedFanOut ==
    \A a \in ChainIds, bl \in ChainIds, be \in ChainIds, c \in ChainIds :
        IsChain(a, bl, be, c)
        => []((/\ last.op = "call" /\ last.method = Some(Objs[a].method)
               /\ {a, bl, be, c} \subseteq Registered)
              => <>(\E n \in DOMAIN done :
                       /\ done[n].method = Objs[c].method
                       /\ done[n].event.data
                             = Reemitted(Objs[bl].method,
                                         Payload(Objs[a].method))))

\* the finished runs of the method, in the order in which they finished
RunsOf(method) == SelectSeq(done, LAMBDA r : r.method = method)

\* the numbers of the calls of a sequence
CallNumbers == 0..(MaxSequence - 1)

\* C27: per-emitter delivery order.  With an emitter and a listener of its
\* channel and event_type registered, the listener processes the event of
\* every call of a sequence of calls of the emitter, and processes the
\* events in the order of the calls.
C27_DeliveryOrder ==
    \A e \in OrderIds, l \in OrderIds :
        (/\ Objs[e].kind = "Emitter" /\ Objs[e].method \in EmitterMethods
         /\ Objs[l].kind = "Listener"
         /\ Objs[l].channel = Objs[e].channel
         /\ Objs[l].event_type = Objs[e].event_type)
        => /\ \A i \in CallNumbers :
                 []((/\ last.op = "call"
                     /\ last.method = Some(Objs[e].method)
                     /\ last.body = Some(Return(EventName(i)))
                     /\ {e, l} \subseteq Registered)
                    => <>(\E n \in DOMAIN RunsOf(Objs[l].method) :
                             RunsOf(Objs[l].method)[n].event.data
                                 = EventName(i)))
           /\ [](\A n1, n2 \in DOMAIN RunsOf(Objs[l].method) :
                    \A i, j \in CallNumbers :
                        (/\ n1 < n2
                         /\ RunsOf(Objs[l].method)[n1].event.data
                               = EventName(i)
                         /\ RunsOf(Objs[l].method)[n2].event.data
                               = EventName(j))
                        => i < j)

\* the keys of the index by channel and event_type: the channels, and the
\* event types under each channel
IndexKeys(ct) ==
    DKeys(ct) \cup UNION {DKeys(ct[n].v) : n \in DOMAIN ct}

HasForbidden(key) == \E n \in DOMAIN key : key[n] \in {":", "*"}

\* C28: forbidden characters.  Constructing a Listener or Emitter whose
\* channel or event_type contains ':' or '*' raises ValueError with a
\* message that names a forbidden character it contains, and nothing is
\* registered; and no key of the index by channel and event_type ever
\* contains ':' or '*'.
C28_ForbiddenCharacters ==
    /\ [][\A i \in ForbiddenIds :
             (/\ \/ HasForbidden(Objs[i].channel)
                 \/ HasForbidden(Objs[i].event_type)
              /\ ConstructAndAdd(i))
             => /\ last'.raised = "ValueError"
                /\ \E c \in {":", "*"} :
                      /\ \/ \E n \in DOMAIN Objs[i].channel :
                               Objs[i].channel[n] = c
                         \/ \E n \in DOMAIN Objs[i].event_type :
                               Objs[i].event_type[n] = c
                      /\ last'.msg = ForbiddenMsg(c)
                /\ SameIndices]_vars
    /\ [](\A key \in IndexKeys(by_chnl_and_type) : ~HasForbidden(key))

\* C29: remove(binding) for a binding whose method is a free function
\* raises ValueError and leaves the three indices unchanged.
C29_RemoveRejectsFreeFunction ==
    [][\A i \in AddIds :
          (isfunction(Objs[i].method) /\ Remove(i))
          => /\ last'.op = "remove"
             /\ last'.raised = "ValueError"
             /\ last'.msg = err_msg
             /\ SameIndices]_vars

\* remove has just refused a binding of a free function while other
\* bindings were registered
C29_Witness ==
    /\ last.op = "remove"
    /\ last.raised = "ValueError"
    /\ isfunction(Objs[last.id].method)
    /\ Registered # {}

\* the lists of the three indices in which the binding object j is filed
\* when it is registered
ListsOf(ct, rel, met, j) ==
    << EventList(ct, Objs[j].channel, Objs[j].event_type),
       FGetOr(rel, Objs[j].method.self[1], <<>>),
       FGetOr(met, Objs[j].method, <<>>) >>

\* C30: frame of remove.  remove(b) takes nothing but b out of any list of
\* the three indices: every other binding that was registered stays in its
\* three lists, and each list keeps the order of the bindings it keeps.
C30_RemoveFrame ==
    [][\A i \in Ids :
          Remove(i)
          => /\ Registered \ {i} \subseteq InCt(by_chnl_and_type')
             /\ Registered \ {i} \subseteq InRel(by_relay')
             /\ Registered \ {i} \subseteq InMet(by_method')
             /\ \A j \in Ids : \A n \in 1..3 :
                   Without(ListsOf(by_chnl_and_type', by_relay',
                                   by_method', j)[n], i)
                     = Without(ListsOf(by_chnl_and_type, by_relay,
                                       by_method, j)[n], i)]_vars

\* the listener of the task t rejects the data of its event
Rejects(t) == ~type_check(t.event.data, event_schema(t.method))

\* C31: listener-side validation failures are contained.  Emitting an
\* event whose data a listener rejects raises nothing and creates the
\* tasks of all its listeners; when the task of the rejecting listener
\* runs, its body is not executed, nothing reaches the caller, and the
\* tasks behind it stay on the queue, the other listeners of the event
\* among them.
C31_ValidationContained ==
    /\ [][\A ev \in ListenEvents :
             Emit(ev) => /\ last'.raised = "none"
                         /\ Len(Created) = Cardinality(Expected(ev))]_vars
    /\ [][(RunTask /\ Rejects(Head(ready)))
             => /\ done' = Append(done,
                                   [method |-> Head(ready).method,
                                    event |-> Head(ready).event,
                                    outcome |-> "rejected"])
                /\ ready' = Tail(ready)
                /\ last' = last
                /\ running' = running]_vars

\* a listener has rejected an event and another listener of the same event
\* has run its body after it
C31_Witness ==
    \E n1, n2 \in DOMAIN done :
        /\ n1 < n2
        /\ done[n1].outcome = "rejected"
        /\ done[n2].outcome = "ok"
        /\ done[n2].event = done[n1].event
        /\ done[n2].method # done[n1].method

\* the listener methods for which the step created a task
Scheduled == {Created[n].method : n \in DOMAIN Created}

\* C32: emit is atomic.  One step of the caller's coroutine takes emit from
\* its query to its last task: the caller is still running after it, no
\* binding has been added or removed in between, and the listeners that
\* got a task are exactly the matching compatible listeners registered
\* when emit was entered.
C32_EmitAtomic ==
    [][\A ev \in Events :
          Emit(ev)
          => /\ running = "main" /\ running' = "main"
             /\ Registered' = Registered
             /\ Scheduled = {Objs[i].method : i \in Expected(ev)}
             /\ \A n \in DOMAIN Created : Created[n].event = ev]_vars

Answers(reg) ==
    << [c \in ChannelArgs, e \in EventTypeArgs |->
           get_by_event(reg, c, e, "Binding").res],
       [r \in Relays |-> get_by_relay(reg, r, "Binding").res],
       [m \in Methods |-> get_by_method(reg, m, "Binding").res] >>

\* the bindings that a caller adds after a query
PureIds == {1, 7}

\* C34: queries are observationally pure.  A query or an emit changes the
\* answer of no query, neither at once nor after the adds that follow it:
\* the answers are those that the registry before the step gives after the
\* same adds.
C34_QueriesPure ==
    [][calls' # calls
       => /\ Answers(RegAfter) = Answers(Reg)
          /\ \A i \in PureIds, j \in PureIds :
                Answers(add(add(RegAfter, i), j))
                    = Answers(add(add(Reg, i), j))]_vars

\* ---------------------------------------------- events with wildcards
\* the binding objects of a caller that emits events with wildcards
WildcardIds == {1, 3, 4, 6, 7}

\* the events that caller hands to Relay.emit: Event has no validator, so
\* its channel and event_type may contain '*'
WildcardEvents ==
    { Event("p", ChA, EtX, None),
      Event("p", ChA, <<STAR>>, None),
      Event("p", <<STAR>>, EtX, None),
      Event("p", <<STAR>>, <<STAR>>, None),
      Event("p", <<STAR>>, <<STAR>>,
            Some(SourceInfo([relay |-> Some(R1),
                             emitter |-> Some(BoundMethod(R1, "emt"))]))) }

NextWildcard ==
    \/ \E i \in WildcardIds : Add(i)
    \/ \E i \in WildcardIds : Remove(i)
    \/ \E ev \in WildcardEvents : Emit(ev)
    \/ Yield
    \/ RunTask
    \/ ResumeMain

SpecWildcard == Init /\ [][NextWildcard]_vars

\* the registered listeners that the claim expects an event to reach: those
\* of the channels and event types that the event's channel and event_type
\* match as patterns (equal to them when they hold no '*'), compatible with
\* its source
Reached(ev) ==
    {i \in Registered :
        /\ Objs[i].kind = "Listener"
        /\ IF HasStar(ev.channel) THEN Glob(Objs[i].channel, ev.channel)
           ELSE Objs[i].channel = ev.channel
        /\ IF HasStar(ev.event_type)
           THEN Glob(Objs[i].event_type, ev.event_type)
           ELSE Objs[i].event_type = ev.event_type
        /\ ClaimCompatible(ev.source, Objs[i].source)}

\* C35: emit takes the event's channel and event_type for lookup patterns.
\* An event with '*' in them gets one task for each compatible listener of
\* every registered channel and event type that the pattern matches, an
\* event without '*' one for each compatible listener registered under its
\* own channel and event type, and no other task.
C35_WildcardEvents ==
    [][\A ev \in WildcardEvents :
          Emit(ev)
          => /\ Len(Created) = Cardinality(Reached(ev))
             /\ \A i \in Reached(ev) :
                   \E n \in DOMAIN Created :
                       Created[n] = Task(ev, Objs[i].method)
             /\ \A n \in DOMAIN Created :
                   \E i \in Reached(ev) :
                       Created[n] = Task(ev, Objs[i].method)]_vars

\* ------------------------------------- a method that listens to itself
\* the bindings of test_emitter_listener: emitter_listener is bound as
\* Emitter and as Listener on one channel and event type, next to the
\* starter emitter and the final listener
LoopIds == {1, 4, 14, 19}

InitLoop ==
    /\ \E ids \in SUBSET LoopIds :
          /\ by_chnl_and_type = add_all(EmptyReg, ids).ct
          /\ by_relay = add_all(EmptyReg, ids).rel
          /\ by_method = add_all(EmptyReg, ids).met
    /\ ready = <<>>
    /\ running = "main"
    /\ done = <<>>
    /\ last = NoCall
    /\ calls = 0

SpecLoop == InitLoop /\ [][NextChain]_vars

\* method m is registered as Emitter and as Listener without source on the
\* key of event ev
SelfBound(m, ev) ==
    /\ \E i \in Registered :
          /\ Objs[i].kind = "Emitter" /\ Objs[i].method = m
          /\ Objs[i].channel = ev.channel
          /\ Objs[i].event_type = ev.event_type
    /\ \E i \in Registered :
          /\ Objs[i].kind = "Listener" /\ Objs[i].method = m
          /\ Objs[i].source = None
          /\ Objs[i].channel = ev.channel
          /\ Objs[i].event_type = ev.event_type

\* C36: no self-exclusion.  When a method bound as Emitter and as Listener
\* without source on the key of an event is run for that event, it emits
\* again and a task of the method itself for the event it emitted joins the
\* ready queue.
C36_NoSelfExclusion ==
    [][(RunEmitterTask /\ SelfBound(Head(ready).method, Head(ready).event))
       => \E n \in DOMAIN ready' :
             /\ ready'[n].method = Head(ready).method
             /\ ready'[n].event.data
                    = Reemitted(Head(ready).method, Head(ready).event.data)
             /\ ready'[n].event.channel = Head(ready).event.channel
             /\ ready'[n].event.event_type = Head(ready).event.event_type]_vars

\* ------------------------------------------------------------ quiescence
\* method m2 is bound as a listener to a key that method m1 emits on
EmitsTo(m1, m2) ==
    \E e \in Registered, l \in Registered :
        /\ Objs[e].kind = "Emitter" /\ Objs[e].method = m1
        /\ Objs[l].kind = "Listener" /\ Objs[l].method = m2
        /\ Objs[l].channel = Objs[e].channel
        /\ Objs[l].event_type = Objs[e].event_type

\* the methods of the chained bindings
ChainMethods == {Objs[i].method : i \in ChainIds}

\* the methods that a chain of at most n further bindings leads to from
\* those of S
RECURSIVE ReachedFrom(_, _)
ReachedFrom(S, n) ==
    IF n = 0 THEN S
    ELSE ReachedFrom(S \cup {m2 \in ChainMethods :
                                 \E m1 \in S : EmitsTo(m1, m2)}, n - 1)

\* no chain of bindings leads from a method back to it
NoCycle ==
    \A m \in ChainMethods :
        m \notin ReachedFrom({m2 \in ChainMethods : EmitsTo(m, m2)},
                             Cardinality(ChainMethods))

\* the listener tasks that have not run yet
Pending == {n \in DOMAIN ready : ready[n] # MainTask}

ListenersRegistered == {i \in Registered : Objs[i].kind = "Listener"}

\* C37: quiescence.  While the bindings contain no cycle, the listener
\* invocations made and pending are at most one for each call of emit or
\* of an emitter method and each registered listener, and after such a call
\* the event loop reaches a state with no pending listener task.
C37_Quiescence ==
    /\ [](NoCycle
          => Len(done) + Cardinality(Pending)
                 <= calls * Cardinality(ListenersRegistered))
    /\ []((NoCycle /\ last.op \in {"call", "emit"}) => <>(Pending = {}))

\* the method that listens and emits has run for an event in a chain of
\* bindings without cycle, its emit is over, and no listener task is pending
C37_Witness ==
    /\ NoCycle
    /\ {7, 14, 15} \subseteq Registered
    /\ \E n \in DOMAIN done : done[n].method \in EmitterListenerMethods
    /\ Pending = {}


====
